---- MODULE Spec2Model ----
(***************************************************************************)
(* The product page of frontend/app/page.tsx: the Home component's state   *)
(* (products, formData, editingId), its handlers, and the requests it has  *)
(* in flight against the REST collection /products/.                       *)
(*                                                                         *)
(* Texts the program computes on (price) are sequences of one-character    *)
(* strings; texts it only copies (name, description) are strings.          *)
(***************************************************************************)
EXTENDS Integers, Sequences, FiniteSets, Bags, TLC

VARIABLES products, formData, editingId, inflight, issued, server, last

vars == <<products, formData, editingId, inflight, issued, server, last>>

(***************************************************************************)
(* Bounds of the model.                                                    *)
(***************************************************************************)
\* requests that may be in flight at once
MaxInflight == 2
\* products in a list the backend returns
MaxProducts == 2
\* submissions and deletions the user performs in one run
MaxMutations == 2

(***************************************************************************)
(* JavaScript values                                                       *)
(***************************************************************************)
\* the null of `number | null` (editingId); ids are integers >= 0
null == -1

\* the null of `string | null` (Product.description)
Null == [t |-> "null"]

Str(s) == [t |-> "string", v |-> s]

\* a finite number m * 10^e, e <= 0, in lowest terms
Fin(m, e) == [t |-> "number", k |-> "finite", m |-> m, e |-> e]

NaN == [t |-> "number", k |-> "NaN", m |-> 0, e |-> 0]

\* +Infinity (m = 1) and -Infinity (m = -1)
Inf(sgn) == [t |-> "number", k |-> "Infinity", m |-> sgn, e |-> 0]

Zero == Fin(0, 0)

RECURSIVE Pow10(_)
Pow10(n) == IF n <= 0 THEN 1 ELSE 10 * Pow10(n - 1)

\* m * 10^e for any integer e, brought to lowest terms
RECURSIVE Normal(_, _)
Normal(m, e) ==
  IF m = 0 THEN Zero
  ELSE IF e > 0 THEN Normal(m * 10, e - 1)
  ELSE IF e < 0 /\ m % 10 = 0 THEN Normal(m \div 10, e + 1)
  ELSE Fin(m, e)

\* ToBoolean of a number or null id: null, 0 and NaN are falsy
TruthyId(id) == id # null /\ id # 0

\* ToBoolean of a number value
TruthyNum(n) == ~(n.k = "NaN" \/ (n.k = "finite" /\ n.m = 0))

\* ToBoolean of a string-or-null value
TruthyStr(d) == d # Null /\ d.v # ""

(***************************************************************************)
(* parseFloat: leading white space is skipped, then the longest prefix     *)
(* that is a StrDecimalLiteral is converted; NaN when there is none.       *)
(***************************************************************************)
Digits == <<"0", "1", "2", "3", "4", "5", "6", "7", "8", "9">>

IsDigit(c) == \E i \in 1..10 : Digits[i] = c

DigitVal(c) == (CHOOSE i \in 1..10 : Digits[i] = c) - 1

IsSpace(c) == c \in {" ", "\t", "\n"}

\* the first index >= i of s that holds no white space
RECURSIVE SkipSpace(_, _)
SkipSpace(s, i) ==
  IF i <= Len(s) /\ IsSpace(s[i]) THEN SkipSpace(s, i + 1) ELSE i

\* the first index >= i of s that holds no digit
RECURSIVE DigitsEnd(_, _)
DigitsEnd(s, i) ==
  IF i <= Len(s) /\ IsDigit(s[i]) THEN DigitsEnd(s, i + 1) ELSE i

\* the value of the digits s[i..j-1] (0 when there are none)
RECURSIVE DigitsVal(_, _, _)
DigitsVal(s, i, j) ==
  IF j <= i THEN 0 ELSE 10 * DigitsVal(s, i, j - 1) + DigitVal(s[j - 1])

StartsWith(s, i, w) ==
  /\ i + Len(w) - 1 <= Len(s)
  /\ \A n \in 1..Len(w) : s[i + n - 1] = w[n]

InfinityWord == <<"I", "n", "f", "i", "n", "i", "t", "y">>

parseFloat(s) ==
  LET i0 == SkipSpace(s, 1)
      signed == i0 <= Len(s) /\ s[i0] \in {"+", "-"}
      sgn == IF signed /\ s[i0] = "-" THEN -1 ELSE 1
      i1 == IF signed THEN i0 + 1 ELSE i0
      j == DigitsEnd(s, i1)
      dot == j <= Len(s) /\ s[j] = "."
      k == IF dot THEN DigitsEnd(s, j + 1) ELSE j
      nInt == j - i1
      nFrac == IF dot THEN k - (j + 1) ELSE 0
      mant == DigitsVal(s, i1, j) * Pow10(nFrac)
                + (IF dot THEN DigitsVal(s, j + 1, k) ELSE 0)
      \* the exponent part counts only when a digit follows e, e+ or e-
      hasE == k <= Len(s) /\ s[k] \in {"e", "E"}
      eSigned == hasE /\ k + 1 <= Len(s) /\ s[k + 1] \in {"+", "-"}
      eSgn == IF eSigned /\ s[k + 1] = "-" THEN -1 ELSE 1
      e1 == IF eSigned THEN k + 2 ELSE k + 1
      e2 == IF hasE THEN DigitsEnd(s, e1) ELSE e1
      expo == IF hasE /\ e2 > e1 THEN eSgn * DigitsVal(s, e1, e2) ELSE 0
  IN IF StartsWith(s, i1, InfinityWord) THEN Inf(sgn)
     ELSE IF nInt = 0 /\ nFrac = 0 THEN NaN
     ELSE Normal(sgn * mant, expo - nFrac)

(***************************************************************************)
(* String(v): a string is returned as it is, null gives "null", a number   *)
(* its shortest decimal form (Number::toString; exponent notation, used    *)
(* from 1e21 up and below 1e-6, lies outside the numbers of the model).    *)
(***************************************************************************)
RECURSIVE NatToText(_)
NatToText(n) ==
  IF n < 10 THEN <<Digits[n + 1]>>
  ELSE NatToText(n \div 10) \o <<Digits[(n % 10) + 1]>>

\* the digits of n, padded with leading zeros to width w
RECURSIVE Padded(_, _)
Padded(n, w) ==
  IF w <= 0 THEN <<>>
  ELSE Padded(n \div 10, w - 1) \o <<Digits[(n % 10) + 1]>>

NumberToString(n) ==
  IF n.k = "NaN" THEN <<"N", "a", "N">>
  ELSE IF n.k = "Infinity"
    THEN (IF n.m < 0 THEN <<"-">> ELSE <<>>) \o InfinityWord
  ELSE LET a == IF n.m < 0 THEN -n.m ELSE n.m
           p == Pow10(-n.e)
       IN (IF n.m < 0 THEN <<"-">> ELSE <<>>)
            \o NatToText(a \div p)
            \o (IF n.e < 0 THEN <<".">> \o Padded(a % p, -n.e) ELSE <<>>)

String(v) ==
  IF v.t = "string" THEN v.v
  ELSE IF v.t = "null" THEN <<"n", "u", "l", "l">>
  ELSE NumberToString(v)

(***************************************************************************)
(* The data of the page                                                    *)
(***************************************************************************)
\* useState({name: '', description: '', price: ''})
EmptyForm == [name |-> "", description |-> "", price |-> <<>>]

\* what the user may type: <<e.target.name, e.target.value>>; names and
\* descriptions reach the form through handleEdit
Inputs == { <<"price", <<"a", "b">> >>, <<"price", <<"7", "x">> >> }

\* the products the backend may hold: one with id 0 and its price sent as a
\* number, one with no description, one with an empty description
Catalogue ==
  { [id |-> 0, name |-> "Ink", description |-> Str("black"),
     price |-> Fin(25, -1)],
    [id |-> 1, name |-> "Pen", description |-> Null,
     price |-> Str(<<"1", ".", "5", "0">>)],
    [id |-> 2, name |-> "Cap", description |-> Str(""),
     price |-> Str(<<"0", ".", "0", "5">>)] }

RowIds(rows) == {rows[n].id : n \in 1..Len(rows)}

\* the arrays GET /products/ may answer with: any products of the
\* catalogue, in any order, no id twice
ServerLists ==
  UNION { { rows \in [1..n -> Catalogue] : Cardinality(RowIds(rows)) = n }
          : n \in 0..MaxProducts }

\* apiClient.get('/products/') and the urls `/products/${id}/`
CollectionUrl == <<"products">>

ResourceUrl(id) == <<"products", id>>

\* the requests in flight are a bag: two of them may be alike, and they
\* settle in any order
One(r) == SetToBag({r})

(***************************************************************************)
(* A request in flight, with the handler that awaits it                    *)
(***************************************************************************)
GetRequest ==
  [call |-> "fetchProducts", method |-> "GET", url |-> CollectionUrl]

\* the price with a fault: no `|| 0`
PriceNumber_NoDefault(text) == parseFloat(text)

\* parseFloat(formData.price) || 0
PriceNumber(text) ==
  LET n == parseFloat(text) IN IF TruthyNum(n) THEN n ELSE Zero

\* { ...formData, price: parseFloat(formData.price) || 0 }
submissionData(fd) ==
  [name |-> fd.name, description |-> fd.description,
   price |-> PriceNumber(fd.price)]

\* the request handleSubmit sends: put when editingId is truthy, else post
SubmitRequest(eid, fd) ==
  IF TruthyId(eid)
    THEN [call |-> "handleSubmit", method |-> "PUT", url |-> ResourceUrl(eid),
          data |-> submissionData(fd)]
    ELSE [call |-> "handleSubmit", method |-> "POST", url |-> CollectionUrl,
          data |-> submissionData(fd)]

DeleteRequest(id) ==
  [call |-> "handleDelete", method |-> "DELETE", url |-> ResourceUrl(id)]

\* handleEdit's form with a fault: the description and the price are copied
\* as they are
EditForm_Raw(product) ==
  [name |-> product.name,
   description |-> IF product.description = Null
                     THEN "null" ELSE product.description.v,
   price |-> IF product.price.t = "string"
               THEN product.price.v ELSE <<>>]

\* the form handleEdit fills in from a product
EditForm(product) ==
  [name |-> product.name,
   description |-> IF TruthyStr(product.description)
                     THEN product.description.v ELSE "",
   price |-> String(product.price)]

\* the step just taken (history, read by the properties only): the handler,
\* whether its request was fulfilled, the request, the handler's argument
\* or the response
Event(op, ok, req, arg) == [op |-> op, ok |-> ok, req |-> req, arg |-> arg]

None == [none |-> TRUE]

(***************************************************************************)
(* Initial state: the first render, and the fetch its effect has sent      *)
(***************************************************************************)
\* the rows the backend holds when the page is mounted
InitialRows ==
  << CHOOSE p \in Catalogue : p.id = 0, CHOOSE p \in Catalogue : p.id = 1 >>

\* the backend: the rows it holds and the next id it assigns
Backend(rows, nextId) == [rows |-> rows, nextId |-> nextId]

Init ==
  /\ products = <<>>
  /\ formData = EmptyForm
  /\ editingId = null
  /\ inflight = One(GetRequest)
  /\ issued = 0
  /\ server = Backend(InitialRows, Cardinality(Catalogue))
  /\ last = Event("mount", TRUE, GetRequest, None)

(***************************************************************************)
(* The handlers, up to their await                                         *)
(***************************************************************************)
\* setFormData((prev) => ({ ...prev, [name]: value }))
handleInputChange(name, value) ==
  /\ formData' = [formData EXCEPT ![name] = value]
  /\ last' = Event("handleInputChange", TRUE, None, name)
  /\ UNCHANGED <<products, editingId, inflight, issued, server>>

\* handleSubmit with a fault: the form is locked once a request has failed
handleSubmit_BlockedAfterFailure ==
  /\ last.ok
  /\ BagCardinality(inflight) < MaxInflight
  /\ issued < MaxMutations
  /\ issued' = issued + 1
  /\ inflight' = inflight (+) One(SubmitRequest(editingId, formData))
  /\ last' = Event("handleSubmit", TRUE, SubmitRequest(editingId, formData),
                   None)
  /\ UNCHANGED <<products, formData, editingId, server>>

handleSubmit ==
  /\ BagCardinality(inflight) < MaxInflight
  /\ issued < MaxMutations
  /\ issued' = issued + 1
  /\ inflight' = inflight (+) One(SubmitRequest(editingId, formData))
  /\ last' = Event("handleSubmit", TRUE, SubmitRequest(editingId, formData),
                   None)
  /\ UNCHANGED <<products, formData, editingId, server>>

\* handleEdit with a fault: the update requests in flight follow editingId,
\* as if their url were read when they are answered
handleEdit_RetargetsPending(product) ==
  /\ editingId' = product.id
  /\ formData' = EditForm(product)
  /\ inflight' =
       BagOfAll(LAMBDA r : IF r.method = "PUT"
                             THEN [r EXCEPT !.url = ResourceUrl(product.id)]
                             ELSE r,
                inflight)
  /\ last' = Event("handleEdit", TRUE, None, product)
  /\ UNCHANGED <<products, issued, server>>

handleEdit(product) ==
  /\ editingId' = product.id
  /\ formData' = EditForm(product)
  /\ last' = Event("handleEdit", TRUE, None, product)
  /\ UNCHANGED <<products, inflight, issued, server>>

\* handleDelete with a fault: deleting the product being edited leaves edit
\* mode
handleDelete_LeavesEdit(id) ==
  /\ BagCardinality(inflight) < MaxInflight
  /\ issued < MaxMutations
  /\ issued' = issued + 1
  /\ inflight' = inflight (+) One(DeleteRequest(id))
  /\ editingId' = IF editingId = id THEN null ELSE editingId
  /\ formData' = IF editingId = id THEN EmptyForm ELSE formData
  /\ last' = Event("handleDelete", TRUE, DeleteRequest(id), id)
  /\ UNCHANGED <<products, server>>

handleDelete(id) ==
  /\ BagCardinality(inflight) < MaxInflight
  /\ issued < MaxMutations
  /\ issued' = issued + 1
  /\ inflight' = inflight (+) One(DeleteRequest(id))
  /\ last' = Event("handleDelete", TRUE, DeleteRequest(id), id)
  /\ UNCHANGED <<products, formData, editingId, server>>

(***************************************************************************)
(* The handlers, from their await on.  ok: the request was fulfilled;      *)
(* otherwise axios threw (no answer, or an answer that is not 2xx).        *)
(***************************************************************************)
\* fetchProducts with a fault: the answer is added to the list held
fetchProductsDone_Merges(r, ok, data) ==
  /\ r.call = "fetchProducts"
  /\ products' = IF ok THEN products \o data ELSE products
  /\ inflight' = inflight (-) One(r)
  /\ last' = Event("fetchProductsDone", ok, r,
                   IF ok THEN data ELSE None)
  /\ UNCHANGED <<formData, editingId, issued, server>>

\* fetchProducts with a fault: the catch empties the list
fetchProductsDone_ClearsOnFailure(r, ok, data) ==
  /\ r.call = "fetchProducts"
  /\ products' = IF ok THEN data ELSE <<>>
  /\ inflight' = inflight (-) One(r)
  /\ last' = Event("fetchProductsDone", ok, r,
                   IF ok THEN data ELSE None)
  /\ UNCHANGED <<formData, editingId, issued, server>>

\* fetchProducts with a fault: an answer that lacks the product being edited
\* ends the edit
fetchProductsDone_EndsEditOfUnlisted(r, ok, data) ==
  /\ r.call = "fetchProducts"
  /\ products' = IF ok THEN data ELSE products
  /\ editingId' = IF ok /\ editingId \notin RowIds(data)
                    THEN null ELSE editingId
  /\ inflight' = inflight (-) One(r)
  /\ last' = Event("fetchProductsDone", ok, r,
                   IF ok THEN data ELSE None)
  /\ UNCHANGED <<formData, issued, server>>

\* fetchProducts: setProducts(response.data), or the catch
fetchProductsDone(r, ok, data) ==
  /\ r.call = "fetchProducts"
  /\ products' = IF ok THEN data ELSE products
  /\ inflight' = inflight (-) One(r)
  /\ last' = Event("fetchProductsDone", ok, r,
                   IF ok THEN data ELSE None)
  /\ UNCHANGED <<formData, editingId, issued, server>>

\* handleSubmit with a fault: setEditingId(null) after the try, so that a
\* failed put leaves edit mode too
handleSubmitDone_AlwaysLeavesEdit(r, ok) ==
  /\ r.call = "handleSubmit"
  /\ editingId' = IF r.method = "PUT" THEN null ELSE editingId
  /\ formData' = EmptyForm
  /\ inflight' = (inflight (-) One(r)) (+) One(GetRequest)
  /\ last' = Event("handleSubmitDone", ok, r, None)
  /\ UNCHANGED <<products, issued, server>>

\* handleSubmit with a fault: the form is reset inside the try
handleSubmitDone_ResetsOnSuccess(r, ok) ==
  /\ r.call = "handleSubmit"
  /\ editingId' = IF ok /\ r.method = "PUT" THEN null ELSE editingId
  /\ formData' = IF ok THEN EmptyForm ELSE formData
  /\ inflight' = (inflight (-) One(r)) (+) One(GetRequest)
  /\ last' = Event("handleSubmitDone", ok, r, None)
  /\ UNCHANGED <<products, issued, server>>

\* handleSubmit with a fault: fetchProducts() is called inside the try
handleSubmitDone_FetchesOnSuccess(r, ok) ==
  /\ r.call = "handleSubmit"
  /\ editingId' = IF ok /\ r.method = "PUT" THEN null ELSE editingId
  /\ formData' = EmptyForm
  /\ inflight' = IF ok THEN (inflight (-) One(r)) (+) One(GetRequest)
                 ELSE inflight (-) One(r)
  /\ last' = Event("handleSubmitDone", ok, r, None)
  /\ UNCHANGED <<products, issued, server>>

\* handleSubmit with a fault: the completion leaves the form and editingId
\* alone when another product has been put in the form since the submit
handleSubmitDone_KeepsLaterEdit(r, ok) ==
  /\ r.call = "handleSubmit"
  /\ LET later == /\ TruthyId(editingId)
                  /\ r.method = "PUT" => editingId # r.url[2]
     IN /\ editingId' = IF later THEN editingId
                         ELSE IF ok /\ r.method = "PUT" THEN null
                         ELSE editingId
        /\ formData' = IF later THEN formData ELSE EmptyForm
  /\ inflight' = (inflight (-) One(r)) (+) One(GetRequest)
  /\ last' = Event("handleSubmitDone", ok, r, None)
  /\ UNCHANGED <<products, issued, server>>

\* handleSubmit: setEditingId(null) after a fulfilled put; then, in every
\* case, the form is reset and fetchProducts() is called
handleSubmitDone(r, ok) ==
  /\ r.call = "handleSubmit"
  /\ editingId' = IF ok /\ r.method = "PUT" THEN null ELSE editingId
  /\ formData' = EmptyForm
  /\ inflight' = (inflight (-) One(r)) (+) One(GetRequest)
  /\ last' = Event("handleSubmitDone", ok, r, None)
  /\ UNCHANGED <<products, issued, server>>

\* handleDelete with a fault: fetchProducts() is called after the try
handleDeleteDone_AlwaysFetches(r, ok) ==
  /\ r.call = "handleDelete"
  /\ inflight' = (inflight (-) One(r)) (+) One(GetRequest)
  /\ last' = Event("handleDeleteDone", ok, r, None)
  /\ UNCHANGED <<products, formData, editingId, issued, server>>

\* handleDelete with a fault: a fulfilled delete also drops the product from
\* the list held
handleDeleteDone_RemovesLocally(r, ok) ==
  /\ r.call = "handleDelete"
  /\ inflight' = IF ok THEN (inflight (-) One(r)) (+) One(GetRequest)
                 ELSE inflight (-) One(r)
  /\ products' = IF ok
                   THEN SelectSeq(products,
                                  LAMBDA q : q.id # r.url[2])
                   ELSE products
  /\ last' = Event("handleDeleteDone", ok, r, None)
  /\ UNCHANGED <<formData, editingId, issued, server>>

\* handleDelete: fetchProducts() after a fulfilled delete, nothing in the catch
handleDeleteDone(r, ok) ==
  /\ r.call = "handleDelete"
  /\ inflight' = IF ok THEN (inflight (-) One(r)) (+) One(GetRequest)
                 ELSE inflight (-) One(r)
  /\ last' = Event("handleDeleteDone", ok, r, None)
  /\ UNCHANGED <<products, formData, editingId, issued, server>>

(***************************************************************************)
(* The specification                                                       *)
(***************************************************************************)
InputChange == \E in \in Inputs : handleInputChange(in[1], in[2])

\* the Edit and Hapus buttons of the products the page lists
Edit == \E n \in 1..Len(products) : handleEdit(products[n])

Delete == \E n \in 1..Len(products) : handleDelete(products[n].id)

FetchDone ==
  \E r \in BagToSet(inflight) :
    \/ \E data \in ServerLists : fetchProductsDone(r, TRUE, data)
    \/ fetchProductsDone(r, FALSE, None)

SubmitDone ==
  \E r \in BagToSet(inflight), ok \in BOOLEAN : handleSubmitDone(r, ok)

DeleteDone ==
  \E r \in BagToSet(inflight), ok \in BOOLEAN : handleDeleteDone(r, ok)

Next ==
  \/ InputChange
  \/ handleSubmit
  \/ Edit
  \/ Delete
  \/ FetchDone
  \/ SubmitDone
  \/ DeleteDone

Spec == Init /\ [][Next]_vars

(***************************************************************************)
(* The page with a backend that only this page writes to.  The backend     *)
(* follows the REST contract: GET answers the rows it holds, POST adds a   *)
(* row with a new id, PUT replaces the row of the id, DELETE removes it;    *)
(* a product has a name, and a PUT or DELETE needs a row of its id.        *)
(* A request is answered at some moment after it is sent, and the answer   *)
(* reaches the page at some later moment; the answers of different         *)
(* requests may reach the page in any order.  A fetch is always answered   *)
(* and fulfilled; a post, put or delete either fails without reaching the  *)
(* backend or is answered and fulfilled.                                   *)
(***************************************************************************)
\* the request r with the answer of the backend
Answered(r, resp) == r @@ [resp |-> resp]

IsAnswered(r) == "resp" \in DOMAIN r

\* the row the backend keeps for a payload
StoredRow(id, data) ==
  [id |-> id, name |-> data.name, description |-> Str(data.description),
   price |-> data.price]

ReplaceRow(rows, row) ==
  [n \in 1..Len(rows) |-> IF rows[n].id = row.id THEN row ELSE rows[n]]

RemoveRow(rows, id) == SelectSeq(rows, LAMBDA row : row.id # id)

\* the backend answers the request r, which has reached it
Serve(r) ==
  /\ ~IsAnswered(r)
  /\ \/ /\ r.method = "GET"
        /\ inflight' = (inflight (-) One(r))
                          (+) One(Answered(r, server.rows))
        /\ UNCHANGED server
     \/ /\ r.method = "POST"
        /\ r.data.name # ""
        /\ LET row == StoredRow(server.nextId, r.data) IN
             /\ server' = Backend(Append(server.rows, row),
                                  server.nextId + 1)
             /\ inflight' = (inflight (-) One(r)) (+) One(Answered(r, row))
     \/ /\ r.method = "PUT"
        /\ r.url[2] \in RowIds(server.rows)
        /\ r.data.name # ""
        /\ LET row == StoredRow(r.url[2], r.data) IN
             /\ server' = Backend(ReplaceRow(server.rows, row),
                                  server.nextId)
             /\ inflight' = (inflight (-) One(r)) (+) One(Answered(r, row))
     \/ /\ r.method = "DELETE"
        /\ r.url[2] \in RowIds(server.rows)
        /\ server' = Backend(RemoveRow(server.rows, r.url[2]),
                             server.nextId)
        /\ inflight' = (inflight (-) One(r)) (+) One(Answered(r, None))
  /\ last' = Event("Serve", TRUE, r, None)
  /\ UNCHANGED <<products, formData, editingId, issued>>

Served == \E r \in BagToSet(inflight) : Serve(r)

SyncFetchDone ==
  \E r \in BagToSet(inflight) :
    IsAnswered(r) /\ fetchProductsDone(r, TRUE, r.resp)

SyncSubmitDone ==
  \E r \in BagToSet(inflight) : handleSubmitDone(r, IsAnswered(r))

SyncDeleteDone ==
  \E r \in BagToSet(inflight) : handleDeleteDone(r, IsAnswered(r))

SyncNext ==
  \/ InputChange
  \/ handleSubmit
  \/ Edit
  \/ Delete
  \/ Served
  \/ SyncFetchDone
  \/ SyncSubmitDone
  \/ SyncDeleteDone

SyncSpec == Init /\ [][SyncNext]_vars

(***************************************************************************)
(* Properties.  Each is a property of the steps of Spec: last' names the   *)
(* handler a step ran, unprimed variables are the state it ran in.         *)
(***************************************************************************)
\* the step sends the request r and no other, and completes none
Sends(r) == inflight' = inflight (+) One(r)

\* the step completes the request last'.req and calls fetchProducts() once
CompletesAndFetches ==
  /\ BagIn(last'.req, inflight)
  /\ inflight' = (inflight (-) One(last'.req)) (+) One(GetRequest)

\* the step completes the request last'.req and sends nothing
CompletesOnly ==
  /\ BagIn(last'.req, inflight)
  /\ inflight' = inflight (-) One(last'.req)

\* C1, as amended: handleSubmit run while editingId is an id the component
\* takes as an editing target sends exactly one PUT, to that id's url; when
\* the PUT is fulfilled its completion sets editingId to null, and when it
\* fails its completion leaves editingId as it is.
C1_UpdateLeavesEditOnSuccessOnly ==
  [][ /\ (last'.op = "handleSubmit" /\ TruthyId(editingId)) =>
           \E r \in {last'.req} :
             /\ Sends(r)
             /\ r.method = "PUT"
             /\ r.url = ResourceUrl(editingId)
      /\ (last'.op = "handleSubmitDone" /\ last'.req.method = "PUT") =>
           editingId' = IF last'.ok THEN null ELSE editingId
    ]_vars

\* C1 witness: an update of the product being edited has failed, and the
\* component still edits it.
C1_Witness ==
  /\ last.op = "handleSubmitDone"
  /\ last.req.method = "PUT"
  /\ ~last.ok
  /\ editingId = last.req.url[2]

\* C1 as claimed (completion clause): once the update request of a submit
\* completes, editingId is null whether the request succeeded or failed.
C1_AsClaimed ==
  (last.op = "handleSubmitDone" /\ last.req.method = "PUT") => editingId = null

\* C2, as amended: handleDelete(id) sends exactly one DELETE, to id's url;
\* when it is fulfilled its completion sends exactly one GET of the
\* collection, and when it fails its completion sends nothing; whatever
\* editingId is.
C2_DeleteRefetchesOnSuccessOnly ==
  [][ /\ last'.op = "handleDelete" =>
           Sends([call |-> "handleDelete", method |-> "DELETE",
                  url |-> ResourceUrl(last'.arg)])
      /\ (last'.op = "handleDeleteDone" /\ last'.ok) => CompletesAndFetches
      /\ (last'.op = "handleDeleteDone" /\ ~last'.ok) => CompletesOnly
    ]_vars

\* C2 witness: the delete of the product being edited was fulfilled and its
\* fetch is in flight.
C2_Witness ==
  /\ last.op = "handleDeleteDone"
  /\ last.ok
  /\ editingId = last.req.url[2]
  /\ BagIn(GetRequest, inflight)

\* C2 as claimed: the completion of a delete request, fulfilled or failed,
\* sends exactly one GET of the collection.
C2_AsClaimed ==
  [][ /\ last'.op = "handleDelete" =>
           Sends([call |-> "handleDelete", method |-> "DELETE",
                  url |-> ResourceUrl(last'.arg)])
      /\ last'.op = "handleDeleteDone" => CompletesAndFetches
    ]_vars

\* C3: handleSubmit run while editingId is null sends exactly one POST to
\* the collection url and no PUT; the completion of that POST, fulfilled or
\* failed, sets formData to the empty form and does not touch editingId
\* (null stays null).
C3_CreateResetsForm ==
  [][ /\ (last'.op = "handleSubmit" /\ editingId = null) =>
           \E r \in {last'.req} :
             /\ Sends(r)
             /\ r.method = "POST"
             /\ r.url = CollectionUrl
      /\ (last'.op = "handleSubmitDone" /\ last'.req.method = "POST") =>
           /\ formData' = [name |-> "", description |-> "", price |-> <<>>]
           /\ editingId' = editingId
    ]_vars

\* C3 witness: a create sent with a price typed in has failed; the form is
\* empty and editingId is null.
C3_Witness ==
  /\ last.op = "handleSubmitDone"
  /\ last.req.method = "POST"
  /\ last.req.data.price = Fin(7, 0)
  /\ ~last.ok
  /\ editingId = null
  /\ formData = EmptyForm

\* C4: when the request of a submit fails, its completion leaves editingId
\* as it is, sets formData to the empty form and sends one GET of the
\* collection.
C4_FailedSubmit ==
  [][ (last'.op = "handleSubmitDone" /\ ~last'.ok) =>
        /\ editingId' = editingId
        /\ formData' = [name |-> "", description |-> "", price |-> <<>>]
        /\ CompletesAndFetches
    ]_vars

\* C4 witness: an update sent with a filled form has failed while the
\* component was editing; it still edits, the form is empty, a fetch is in
\* flight.
C4_Witness ==
  /\ last.op = "handleSubmitDone"
  /\ last.req.method = "PUT"
  /\ last.req.data.name # ""
  /\ ~last.ok
  /\ TruthyId(editingId)
  /\ formData = EmptyForm
  /\ BagIn(GetRequest, inflight)

\* C5: handleEdit(p), whatever editingId is, sets editingId to p.id and
\* formData to p's name, p's description with null replaced by "", and
\* the text of p's price; it sends nothing and leaves the list alone; every
\* product of the list can be edited.
DecimalTexts == { <<Fin(25, -1), <<"2", ".", "5">> >> }

TextOfPrice(v) ==
  IF v.t = "string" THEN v.v
  ELSE (CHOOSE c \in DecimalTexts : c[1] = v)[2]

C5_StartEdit ==
  /\ [](\A n \in 1..Len(products) : ENABLED handleEdit(products[n]))
  /\ [][ last'.op = "handleEdit" =>
           \E p \in {last'.arg} :
             /\ \E n \in 1..Len(products) : products[n] = p
             /\ editingId' = p.id
             /\ formData'.name = p.name
             /\ formData'.description =
                  (IF p.description = Null THEN "" ELSE p.description.v)
             /\ formData'.price = TextOfPrice(p.price)
             /\ inflight' = inflight
             /\ products' = products
       ]_vars

\* C5 witness: the product with no description was chosen for editing; the
\* form shows an empty description and the price text.
C5_Witness ==
  /\ last.op = "handleEdit"
  /\ last.arg.description = Null
  /\ editingId = last.arg.id
  /\ formData = [name |-> "Pen", description |-> "",
                 price |-> <<"1", ".", "5", "0">>]

\* C6: the completion of a fulfilled fetch leaves the list equal to the
\* array of the answer: the same products in the same order.
C6_FetchReplaces ==
  [][ (last'.op = "fetchProductsDone" /\ last'.ok) =>
        /\ Len(products') = Len(last'.arg)
        /\ \A n \in 1..Len(last'.arg) : products'[n] = last'.arg[n]
    ]_vars

\* C6 witness: a fetch has answered two products, ids not ascending, and
\* the list holds them in that order.
C6_Witness ==
  /\ last.op = "fetchProductsDone"
  /\ last.ok
  /\ Len(last.arg) = 2
  /\ last.arg[1].id > last.arg[2].id
  /\ products = last.arg

\* C7: the completion of a failed fetch changes neither the list nor
\* formData nor editingId.
C7_FailedFetch ==
  [][ (last'.op = "fetchProductsDone" /\ ~last'.ok) =>
        /\ products' = products
        /\ formData' = formData
        /\ editingId' = editingId
    ]_vars

\* C7 witness: a fetch has failed while products were listed and one was
\* being edited.
C7_Witness ==
  /\ last.op = "fetchProductsDone"
  /\ ~last.ok
  /\ products # <<>>
  /\ editingId # null
  /\ formData # EmptyForm

\* C8: neither handleDelete(id) nor the completion of its request changes
\* editingId or formData, also when id is the product being edited.
C8_DeleteKeepsEdit ==
  [][ last'.op \in {"handleDelete", "handleDeleteDone"} =>
        /\ editingId' = editingId
        /\ formData' = formData
    ]_vars

\* C8 witness: the delete of the product being edited was fulfilled; the
\* component still edits it, with its form.
C8_Witness ==
  /\ last.op = "handleDeleteDone"
  /\ last.ok
  /\ editingId = last.req.url[2]
  /\ formData # EmptyForm

\* the decimal numerals: an optional sign, digits with at most one point,
\* one digit at least
DecimalBody(t) == IF t # <<>> /\ t[1] \in {"+", "-"} THEN Tail(t) ELSE t

IsDecimal(t) ==
  LET b == DecimalBody(t) IN
    /\ \A n \in 1..Len(b) : IsDigit(b[n]) \/ b[n] = "."
    /\ Cardinality({n \in 1..Len(b) : b[n] = "."}) <= 1
    /\ \E n \in 1..Len(b) : IsDigit(b[n])

RECURSIVE NaturalOf(_)
NaturalOf(ds) ==
  IF ds = <<>> THEN 0
  ELSE 10 * NaturalOf(SubSeq(ds, 1, Len(ds) - 1)) + DigitVal(ds[Len(ds)])

\* the number a decimal numeral denotes
DecimalValue(t) ==
  LET b == DecimalBody(t)
      point == {n \in 1..Len(b) : b[n] = "."}
      places == IF point = {} THEN 0
                ELSE Len(b) - (CHOOSE n \in point : TRUE)
      n == NaturalOf(SelectSeq(b, IsDigit))
  IN Normal(IF t[1] = "-" THEN -n ELSE n, -places)

\* the number of the longest prefix of t that is a decimal numeral, 0 when
\* no prefix is one
LeadingValue(t) ==
  LET ns == {n \in 1..Len(t) : IsDecimal(SubSeq(t, 1, n))}
  IN IF ns = {} THEN Zero
     ELSE DecimalValue(SubSeq(t, 1, CHOOSE n \in ns : \A m \in ns : m <= n))

\* the request handleSubmit has just sent
Submitted == last.req

C10_OnlyFetchReplaces ==
  /\ products = <<>>
  /\ [][ IF last'.op = "fetchProductsDone" /\ last'.ok
           THEN products' = last'.arg /\ last'.arg \in ServerLists
           ELSE products' = products
       ]_vars

\* C10 witness: a delete was fulfilled and its fetch has not completed: the
\* list still holds the deleted product.
C10_Witness ==
  /\ last.op = "handleDeleteDone"
  /\ last.ok
  /\ last.req.url[2] \in RowIds(products)


(***************************************************************************)
(* C11                                                                     *)
(***************************************************************************)
\* the model sends no more than MaxInflight requests at a time and
\* MaxMutations mutations in all; the handlers themselves have no condition
WithinBounds ==
  /\ BagCardinality(inflight) < MaxInflight
  /\ issued < MaxMutations

\* what the page lets the user and the requests in flight do in a state
CanAlwaysAct ==
  /\ ENABLED InputChange
  /\ WithinBounds => ENABLED handleSubmit
  /\ \A n \in 1..Len(products) :
       /\ ENABLED handleEdit(products[n])
       /\ WithinBounds => ENABLED handleDelete(products[n].id)
  /\ \A r \in BagToSet(inflight) :
       /\ r.call = "fetchProducts" =>
            /\ ENABLED fetchProductsDone(r, TRUE, <<>>)
            /\ ENABLED fetchProductsDone(r, FALSE, None)
       /\ r.call = "handleSubmit" =>
            \A ok \in BOOLEAN : ENABLED handleSubmitDone(r, ok)
       /\ r.call = "handleDelete" =>
            \A ok \in BOOLEAN : ENABLED handleDeleteDone(r, ok)

\* C11: in every reachable state, whatever requests have failed before, the
\* form can be changed and submitted, every product listed can be edited and
\* deleted and every request in flight can complete either way; a step is
\* therefore possible in every state (no state is terminal).  Sending a
\* request is possible as long as the bounds of the model on requests are
\* not exhausted.
C11_NeverBlocked == []CanAlwaysAct

\* a request has just failed, a mutation failed before it too, and the
\* page can still be used on the products it lists
C11_Witness ==
  /\ ~last.ok
  /\ last.op = "fetchProductsDone"
  /\ issued >= 1
  /\ products # <<>>
  /\ WithinBounds
  /\ ENABLED handleSubmit
  /\ ENABLED handleEdit(products[1])
  /\ ENABLED handleDelete(products[1].id)

(***************************************************************************)
(* C12                                                                     *)
(***************************************************************************)
\* C12: the request a submit sends is decided by editingId alone: an update
\* (PUT) to the endpoint of editingId whenever editingId is the id of a
\* product, 0 included, and a create (POST) to the collection if and only if
\* editingId is null.
C12_AsClaimed ==
  last.op = "handleSubmit" =>
    /\ editingId # null =>
         /\ Submitted.method = "PUT"
         /\ Submitted.url = ResourceUrl(editingId)
    /\ Submitted.method = "POST" <=> editingId = null
    /\ Submitted.method = "POST" => Submitted.url = CollectionUrl

(***************************************************************************)
(* C14                                                                     *)
(***************************************************************************)
\* the request r was sent by a submit and, since then, handleEdit has put
\* another product in the form: editingId is the id of a product and not
\* the one r was sent for (a post is sent when editingId is null or 0, a
\* put to the endpoint of editingId)
EditedSince(r) ==
  /\ r.call = "handleSubmit"
  /\ editingId \notin {null, 0}
  /\ r.method = "PUT" => editingId # r.url[2]

\* C14, as amended: the completion of a submit's request does undo a
\* handleEdit performed while the request was in flight: it always resets
\* the form, and after a fulfilled put it also sets editingId to null; only
\* the completion of a post or of a failed put leaves editingId at the
\* product chosen since, with the form reset.
C14_CompletionUndoesLaterEdit ==
  [][ (last'.op = "handleSubmitDone" /\ EditedSince(last'.req)) =>
        /\ formData' = EmptyForm
        /\ editingId' = IF last'.ok /\ last'.req.method = "PUT"
                          THEN null ELSE editingId
    ]_vars

\* C14 witness: a put for one product has failed after handleEdit put
\* another product in the form: editingId is that other product's id, and
\* the form is reset.
C14_Witness ==
  /\ last.op = "handleSubmitDone"
  /\ ~last.ok
  /\ EditedSince(last.req)
  /\ last.req.method = "PUT"
  /\ formData = EmptyForm

\* C14 as claimed: the completion of a submit's request leaves editingId
\* and the form as the handleEdit performed since the submit has set them.
C14_AsClaimed ==
  [][ (last'.op = "handleSubmitDone" /\ EditedSince(last'.req)) =>
        /\ editingId' = editingId
        /\ formData' = formData
    ]_vars

(***************************************************************************)
(* C15                                                                     *)
(***************************************************************************)
\* C15, as amended: editingId is null at first and changes in two steps
\* only: handleEdit sets it to the id of a product then listed, and the
\* completion of a fulfilled put sets it to null.  A delete, its completion
\* and the completion of a fetch leave it alone, whether or not the product
\* is still listed.
C15_EditingIdChanges ==
  /\ editingId = null
  /\ [][ editingId' # editingId =>
           \/ /\ last'.op = "handleEdit"
              /\ editingId' \in RowIds(products)
           \/ /\ last'.op = "handleSubmitDone"
              /\ last'.ok
              /\ last'.req.method = "PUT"
              /\ editingId' = null
       ]_vars

\* C15 witness: no request is in flight, the last fetch was fulfilled, and
\* the product being edited is not in the list.
C15_Witness ==
  /\ inflight = EmptyBag
  /\ last.op = "fetchProductsDone"
  /\ last.ok
  /\ editingId # null
  /\ editingId \notin RowIds(products)

\* C15 as claimed: when no request is in flight, editingId is null or the
\* id of a product in the list.
C15_AsClaimed ==
  inflight = EmptyBag =>
    editingId = null \/ editingId \in RowIds(products)

(***************************************************************************)
(* C16                                                                     *)
(***************************************************************************)
\* C16: a submit sends exactly one request, a post or a put, with the name
\* and description of the form and the number of its price text as they
\* are in the state of the submit, and a put goes to the endpoint of the
\* editingId of that state; handleInputChange and handleEdit leave the
\* requests in flight as they are, and no step changes a request sent by a
\* submit: such a request is in flight after a step only if it was before
\* or the step is the submit that sent it.
C16_RequestFixedAtSubmit ==
  [][ /\ last'.op = "handleSubmit" =>
           /\ Sends(last'.req)
           /\ last'.req.method \in {"POST", "PUT"}
           /\ last'.req.data.name = formData.name
           /\ last'.req.data.description = formData.description
           /\ last'.req.data.price = LeadingValue(formData.price)
           /\ last'.req.method = "PUT" =>
                last'.req.url = ResourceUrl(editingId)
      /\ last'.op \in {"handleInputChange", "handleEdit"} =>
           inflight' = inflight
      /\ \A r \in BagToSet(inflight') :
           r.call = "handleSubmit" =>
             \/ CopiesIn(r, inflight') <= CopiesIn(r, inflight)
             \/ /\ last'.op = "handleSubmit"
                /\ r = last'.req
                /\ CopiesIn(r, inflight') = CopiesIn(r, inflight) + 1
    ]_vars

\* C16 witness: while a put is in flight, handleEdit has put another
\* product in the form; the request still has the id and the name of the
\* product it was sent for.
C16_Witness ==
  /\ last.op = "handleEdit"
  /\ \E r \in BagToSet(inflight) :
       /\ r.call = "handleSubmit"
       /\ r.method = "PUT"
       /\ r.url # ResourceUrl(editingId)
       /\ r.data.name # formData.name

(***************************************************************************)
(* C13                                                                     *)
(***************************************************************************)
\* C13: with a backend that only this page writes to and fetches that are
\* all fulfilled, whenever every request has completed (nothing is in
\* flight) the list of the page is the rows the backend holds.
C13_AsClaimed == inflight = EmptyBag => products = server.rows

====
